---- MODULE Spec2Model ----
(***************************************************************************)
(* Model of db_application/migrate.py: the migration manager (up, down,   *)
(* reset) and the seed runner, over a migrations directory, a seeds       *)
(* directory and a PostgreSQL database holding the schema_migrations      *)
(* ledger.                                                                 *)
(*                                                                         *)
(* File names are numbers: 1..NumIds are names like 001_init.sql (their   *)
(* numeric order is the lexicographic order of the names), NumIds+1 is a  *)
(* file named seed_*.sql lying in the migrations directory, and 0 is the  *)
(* 'seeds' subdirectory entry of the migrations directory.  A file's text *)
(* is a sequence of tokens: "UP" is the text '-- UP', "DOWN" is the text  *)
(* '-- DOWN', "sp" is whitespace, "good" is an SQL statement the database *)
(* accepts and "bad" one that it rejects.                                 *)
(***************************************************************************)
EXTENDS Integers, Sequences, FiniteSets, TLC

VARIABLES files, seeds, db, pc, queue, trace, exit, open_conns, cur, prev,
          fs_ops, parse, procs

vars == <<files, seeds, db, pc, queue, trace, exit, open_conns, cur, prev,
          fs_ops, parse, procs>>

(* ------------------------------- bounds ------------------------------- *)

NumIds == 3

NumSeeds == 3

MaxFsOps == 1

MaxTextLen == 4

(* ------------------------------- names -------------------------------- *)

Ids == 1..NumIds

SeedIds == 1..NumSeeds

SeedsDirName == 0

SeedPrefixedName == NumIds + 1

NoFile == <<"nofile">>

Unreadable == <<"unreadable">>

Range(s) == {s[i] : i \in 1..Len(s)}

\* The two invocations of the tool that run at the same time.
Procs == {"a", "b"}

\* No text being parsed; no concurrent invocations.
NoParse == [text |-> <<>>, op |-> "none", body |-> <<>>, absent |-> FALSE]

NoProcs ==
    [p \in Procs |-> [pc |-> "off", queue |-> <<>>, out |-> <<>>, exit |-> 0]]

(* ---------------------------- file contents --------------------------- *)

TextFull == <<"UP", "sp", "good", "sp", "DOWN", "sp", "good", "sp">>

TextNoDown == <<"UP", "sp", "good", "sp">>

TextUpBad == <<"UP", "sp", "good", "bad", "sp", "DOWN", "sp", "good">>

TextDownBad == <<"UP", "sp", "good", "sp", "DOWN", "sp", "good", "bad", "sp">>

Texts == {TextFull, TextNoDown, TextUpBad, TextDownBad}

SeedTexts == {<<"good">>, <<"bad">>, <<"good", "bad">>}

(* ------------------------------ str methods --------------------------- *)

RECURSIVE Split(_, _)
Split(s, sep) ==
    IF \A i \in 1..Len(s) : s[i] # sep
    THEN <<s>>
    ELSE LET i == CHOOSE k \in 1..Len(s) :
                      s[k] = sep /\ \A j \in 1..(k - 1) : s[j] # sep
         IN  <<SubSeq(s, 1, i - 1)>> \o Split(SubSeq(s, i + 1, Len(s)), sep)

Replace(s, old) == SelectSeq(s, LAMBDA x : x # old)

RECURSIVE LStrip(_)
LStrip(s) == IF s # <<>> /\ Head(s) = "sp" THEN LStrip(Tail(s)) ELSE s

RECURSIVE RStrip(_)
RStrip(s) ==
    IF s # <<>> /\ s[Len(s)] = "sp" THEN RStrip(SubSeq(s, 1, Len(s) - 1)) ELSE s

Strip(s) == RStrip(LStrip(s))

RECURSIVE Insert(_, _)
Insert(x, s) ==
    IF s = <<>> THEN <<x>>
    ELSE IF x <= Head(s) THEN <<x>> \o s
    ELSE <<Head(s)>> \o Insert(x, Tail(s))

RECURSIVE Sorted(_)
Sorted(s) == IF s = <<>> THEN <<>> ELSE Insert(Head(s), Sorted(Tail(s)))

\* As Reversed, the order kept.
ReversedNot(s) == s

RECURSIVE Reversed(_)
Reversed(s) == IF s = <<>> THEN <<>> ELSE Reversed(Tail(s)) \o <<Head(s)>>

(* ------------------------- the database driver ------------------------ *)

\* A connection: .db is the committed database, .work the transaction's view
\* of it, .status the transaction status, .ok whether the last call returned
\* without raising.
GetConnection(d) == [db |-> d, work |-> d, status |-> "idle", ok |-> TRUE]

Statements(sql) == SelectSeq(sql, LAMBDA x : x \in {"good", "bad"})

\* The statements of sql that run before the first rejected one.
RECURSIVE Accepted(_)
Accepted(stmts) ==
    IF stmts = <<>> \/ Head(stmts) = "bad" THEN <<>>
    ELSE <<Head(stmts)>> \o Accepted(Tail(stmts))

SqlOk(sql) == Statements(sql) # <<>> /\ "bad" \notin Range(sql)

Effect(work, kind, f) ==
    CASE kind = "up"   -> [work EXCEPT !.schema = @ \cup {f}]
      [] kind = "down" -> [work EXCEPT !.schema = @ \ {f}]
      [] kind = "seed" -> [work EXCEPT !.seeded = @ \cup {f}]

\* As Execute, on a connection in autocommit mode.
ExecuteAutocommit(c, sql, kind, f) ==
    IF c.status = "inerror" THEN [c EXCEPT !.ok = FALSE]
    ELSE LET w == IF Accepted(Statements(sql)) # <<>>
                  THEN Effect(c.work, kind, f) ELSE c.work
         IN  IF SqlOk(sql)
             THEN [c EXCEPT !.work = w, !.db = w, !.status = "idle", !.ok = TRUE]
             ELSE [c EXCEPT !.work = w, !.db = w, !.status = "idle",
                            !.ok = FALSE]

\* cur.execute(sql) of a script's SQL: the statements run in order inside the
\* connection's transaction; an empty query or a rejected statement raises and
\* leaves the transaction aborted.
Execute(c, sql, kind, f) ==
    IF c.status = "inerror" THEN [c EXCEPT !.ok = FALSE]
    ELSE LET w == IF Accepted(Statements(sql)) # <<>>
                  THEN Effect(c.work, kind, f) ELSE c.work
         IN  IF SqlOk(sql)
             THEN [c EXCEPT !.work = w, !.status = "intrans", !.ok = TRUE]
             ELSE [c EXCEPT !.work = w, !.status = "inerror", !.ok = FALSE]

\* As InsertVersion, on a version column without UNIQUE.
InsertVersionNoUnique(c, f) ==
    IF c.status = "inerror" \/ ~c.work.table
    THEN [c EXCEPT !.status = "inerror", !.ok = FALSE]
    ELSE [c EXCEPT !.work.ledger = Append(@, f), !.status = "intrans",
                   !.ok = TRUE]

\* INSERT INTO schema_migrations (version) VALUES (f); version is UNIQUE.
InsertVersion(c, f) ==
    IF c.status = "inerror" \/ ~c.work.table \/ f \in Range(c.work.ledger)
    THEN [c EXCEPT !.status = "inerror", !.ok = FALSE]
    ELSE [c EXCEPT !.work.ledger = Append(@, f), !.status = "intrans",
                   !.ok = TRUE]

\* As DeleteVersion, without the WHERE clause.
DeleteVersionAll(c, f) ==
    IF c.status = "inerror" \/ ~c.work.table
    THEN [c EXCEPT !.status = "inerror", !.ok = FALSE]
    ELSE [c EXCEPT !.work.ledger = <<>>, !.status = "intrans", !.ok = TRUE]

\* DELETE FROM schema_migrations WHERE version = f.
DeleteVersion(c, f) ==
    IF c.status = "inerror" \/ ~c.work.table
    THEN [c EXCEPT !.status = "inerror", !.ok = FALSE]
    ELSE [c EXCEPT !.work.ledger = SelectSeq(@, LAMBDA v : v # f),
                   !.status = "intrans", !.ok = TRUE]

\* conn.commit(): an aborted transaction is rolled back by COMMIT.
Commit(c) ==
    IF c.status = "inerror"
    THEN [c EXCEPT !.work = c.db, !.status = "idle"]
    ELSE [c EXCEPT !.db = c.work, !.status = "idle"]

\* conn.rollback()
Rollback(c) == [c EXCEPT !.work = c.db, !.status = "idle"]

\* conn.close(): what is not committed is discarded.
Close(c) == c.db

(* ------------------------------ migrate.py ---------------------------- *)

\* create_migrations_table: CREATE TABLE IF NOT EXISTS, committed.
CreateMigrationsTable(d) ==
    Close(Commit([GetConnection(d) EXCEPT !.work.table = TRUE,
                                          !.status = "intrans"]))

\* As GetAppliedMigrations, in the order of the rows' id.
GetAppliedUnordered(d) == d.ledger

\* As GetAppliedMigrations, restricted to the files still in the directory.
GetAppliedExisting(d) ==
    SelectSeq(Sorted(d.ledger), LAMBDA f : files[f] # NoFile)

\* get_applied_migrations: SELECT version ... ORDER BY version.
GetAppliedMigrations(d) == Sorted(d.ledger)

EndsWithSql(f) == f # SeedsDirName

StartsWithSeed(f) == f = SeedPrefixedName

\* The entries of the migrations directory.
DirEntries ==
    {f \in Ids : files[f] # NoFile} \cup {SeedPrefixedName}
        \cup (IF seeds.exists THEN {SeedsDirName} ELSE {})

RECURSIVE Ascending(_)
Ascending(S) ==
    IF S = {} THEN <<>>
    ELSE LET m == CHOOSE x \in S : \A y \in S : x <= y
         IN  <<m>> \o Ascending(S \ {m})

\* os.listdir returns the entries in an arbitrary order: here every rotation
\* of the ascending and of the descending order.
ListDirOrders(S) ==
    LET asc == Ascending(S)
        n == Len(asc)
        Rot(s, k) == [i \in 1..n |-> s[((i + k - 1) % n) + 1]]
    IN  IF n = 0 THEN {<<>>}
        ELSE {Rot(asc, k) : k \in 0..(n - 1)}
                 \cup {Rot(Reversed(asc), k) : k \in 0..(n - 1)}

\* As GetMigrationFiles, without sorted().
GetMigrationFilesUnsorted(listing) ==
    SelectSeq(listing, LAMBDA f : EndsWithSql(f) /\ ~StartsWithSeed(f))

\* As GetMigrationFiles, the seed_ prefix not excluded.
GetMigrationFilesWithSeeds(listing) ==
    Sorted(SelectSeq(listing, LAMBDA f : EndsWithSql(f)))

\* get_migration_files
GetMigrationFiles(listing) ==
    Sorted(SelectSeq(listing, LAMBDA f : EndsWithSql(f) /\ ~StartsWithSeed(f)))

\* As Pending, without the filter.
PendingAll(migrations, applied) == migrations

\* migrate_up: pending = [m for m in migrations if m not in applied]
Pending(migrations, applied) ==
    SelectSeq(migrations, LAMBDA m : m \notin Range(applied))

\* run_migration_up: parts[0].replace('-- UP', '').strip()
UpSql(content) == Strip(Replace(Split(content, "DOWN")[1], "UP"))

\* run_migration_down: parts = content.split('-- DOWN')
DownParts(content) == Split(content, "DOWN")

DownSql(content) == Strip(DownParts(content)[2])

Readable(content) == content \notin {NoFile, Unreadable}

\* The entries of the seeds directory (every one ends in .sql).
SeedEntries == {s \in SeedIds : seeds.files[s] # NoFile}

\* As SeedStep, without conn.rollback().
SeedStepNoRollback(c, s, content) ==
    LET c1 == Execute(c, content, "seed", s)
        c2 == IF c1.ok THEN Commit(c1) ELSE c1
    IN  [conn |-> c2,
         out |-> <<<<"open", s>>, <<"exec", s>>,
                   IF c1.ok THEN <<"seeded", s>> ELSE <<"seederror", s>>>>]

\* run_seeds: the body of the loop for a seed file that was read.
SeedStep(c, s, content) ==
    LET c1 == Execute(c, content, "seed", s)
        c2 == IF c1.ok THEN Commit(c1) ELSE Rollback(c1)
    IN  [conn |-> c2,
         out |-> <<<<"open", s>>, <<"exec", s>>,
                   IF c1.ok THEN <<"seeded", s>> ELSE <<"seederror", s>>>>]

\* run_seeds: the loop over seed_files on one connection; open() raising
\* leaves the loop and the function.
RECURSIVE SeedLoop(_, _, _)
SeedLoop(c, todo, out) ==
    IF todo = <<>> THEN [conn |-> c, raised |-> FALSE, out |-> out]
    ELSE LET s == Head(todo)
             content == seeds.files[s]
         IN  IF ~Readable(content)
             THEN [conn |-> c, raised |-> TRUE, out |-> out \o <<<<"open", s>>>>]
             ELSE LET r == SeedStep(c, s, content)
                  IN  SeedLoop(r.conn, Tail(todo), out \o r.out)

\* As RunMigrationUp, the exception not raised again.
RunMigrationUpSwallow(d, f, content) ==
    IF ~Readable(content)
    THEN [db |-> d, raised |-> FALSE, out |-> <<<<"open", f>>>>]
    ELSE LET c1 == Execute(GetConnection(d), UpSql(content), "up", f)
             c2 == IF c1.ok THEN InsertVersion(c1, f) ELSE c1
             c3 == IF c2.ok THEN Commit(c2) ELSE Rollback(c2)
         IN  [db |-> Close(c3), raised |-> FALSE,
              out |-> <<<<"open", f>>, <<"exec", f>>,
                        IF c2.ok THEN <<"applied", f>> ELSE <<"error", f>>>>]

\* As RunMigrationUp, without the INSERT into the ledger.
RunMigrationUpNoLedger(d, f, content) ==
    IF ~Readable(content)
    THEN [db |-> d, raised |-> TRUE, out |-> <<<<"open", f>>>>]
    ELSE LET c1 == Execute(GetConnection(d), UpSql(content), "up", f)
             c3 == IF c1.ok THEN Commit(c1) ELSE Rollback(c1)
         IN  [db |-> Close(c3), raised |-> ~c1.ok,
              out |-> <<<<"open", f>>, <<"exec", f>>,
                        IF c1.ok THEN <<"applied", f>> ELSE <<"error", f>>>>]

\* run_migration_up(filename): the result is the committed database, whether
\* an exception propagates, and what the call did: "open" the script file,
\* "exec" its SQL, print "applied" or "error".
RunMigrationUp(d, f, content) ==
    IF ~Readable(content)
    THEN [db |-> d, raised |-> TRUE, out |-> <<<<"open", f>>>>]
    ELSE LET c1 == Execute(GetConnection(d), UpSql(content), "up", f)
             c2 == IF c1.ok THEN InsertVersion(c1, f) ELSE c1
             c3 == IF c2.ok THEN Commit(c2) ELSE Rollback(c2)
         IN  [db |-> Close(c3), raised |-> ~c2.ok,
              out |-> <<<<"open", f>>, <<"exec", f>>,
                        IF c2.ok THEN <<"applied", f>> ELSE <<"error", f>>>>]

\* As RunMigrationDown, the exception not raised again.
RunMigrationDownSwallow(d, f, content) ==
    IF ~Readable(content)
    THEN [db |-> d, raised |-> TRUE, out |-> <<<<"open", f>>>>]
    ELSE IF Len(DownParts(content)) < 2
    THEN [db |-> d, raised |-> FALSE,
          out |-> <<<<"open", f>>, <<"nodown", f>>>>]
    ELSE LET c1 == Execute(GetConnection(d), DownSql(content), "down", f)
             c2 == IF c1.ok THEN DeleteVersion(c1, f) ELSE c1
             c3 == IF c2.ok THEN Commit(c2) ELSE Rollback(c2)
         IN  [db |-> Close(c3), raised |-> FALSE,
              out |-> <<<<"open", f>>, <<"exec", f>>,
                        IF c2.ok THEN <<"rolledback", f>>
                                 ELSE <<"error", f>>>>]

\* As RunMigrationDown, a missing DOWN part raised as an exception.
RunMigrationDownRaising(d, f, content) ==
    IF ~Readable(content)
    THEN [db |-> d, raised |-> TRUE, out |-> <<<<"open", f>>>>]
    ELSE IF Len(DownParts(content)) < 2
    THEN [db |-> d, raised |-> TRUE, out |-> <<<<"open", f>>, <<"nodown", f>>>>]
    ELSE LET c1 == Execute(GetConnection(d), DownSql(content), "down", f)
             c2 == IF c1.ok THEN DeleteVersion(c1, f) ELSE c1
             c3 == IF c2.ok THEN Commit(c2) ELSE Rollback(c2)
         IN  [db |-> Close(c3), raised |-> ~c2.ok,
              out |-> <<<<"open", f>>, <<"exec", f>>,
                        IF c2.ok THEN <<"rolledback", f>>
                                 ELSE <<"error", f>>>>]

\* run_migration_down(filename)
RunMigrationDown(d, f, content) ==
    IF ~Readable(content)
    THEN [db |-> d, raised |-> TRUE, out |-> <<<<"open", f>>>>]
    ELSE IF Len(DownParts(content)) < 2
    THEN [db |-> d, raised |-> FALSE,
          out |-> <<<<"open", f>>, <<"nodown", f>>>>]
    ELSE LET c1 == Execute(GetConnection(d), DownSql(content), "down", f)
             c2 == IF c1.ok THEN DeleteVersion(c1, f) ELSE c1
             c3 == IF c2.ok THEN Commit(c2) ELSE Rollback(c2)
         IN  [db |-> Close(c3), raised |-> ~c2.ok,
              out |-> <<<<"open", f>>, <<"exec", f>>,
                        IF c2.ok THEN <<"rolledback", f>>
                                 ELSE <<"error", f>>>>]

\* As ExitCode, without sys.exit(1).
ExitCodeZero(raised) == 0

\* __main__: an exception that reaches it is printed and the process exits 1;
\* otherwise the script ends and the process exits 0.
ExitCode(raised) == IF raised THEN 1 ELSE 0

MainOut(raised) == IF raised THEN <<<<"failed", 0>>>> ELSE <<>>

(* ------------------------------- history ------------------------------ *)

\* cur: the command running or last run and the ledger rows (in insertion
\* order) at its start; prev: the command before it, with its exit code.
NoCmd == [cmd |-> "none", before |-> <<>>, exit |-> 0]

Begin(cmd) ==
    /\ cur' = [cmd |-> cmd, before |-> db.ledger, exit |-> 0]
    /\ prev' = [cur EXCEPT !.exit = exit]

(* ------------------------------- actions ------------------------------ *)

\* The state: the migrations directory (files), the seeds directory (seeds),
\* the committed database (db), the handler the process is in (pc) with the
\* rest of its loop (queue), what the command has done and printed (trace), the
\* process's exit code (exit), the connections left open when the handler
\* was left (open_conns), the command and the one before it (cur, prev), and
\* how often the migrations directory was changed (fs_ops).
TypeOK ==
    /\ files \in [Ids -> Texts \cup {NoFile, Unreadable}]
    /\ seeds.exists \in BOOLEAN
    /\ seeds.files \in [SeedIds -> SeedTexts \cup {NoFile, Unreadable}]
    /\ db.table \in BOOLEAN
    /\ db.schema \subseteq Ids
    /\ Range(db.ledger) \subseteq Ids
    /\ db.seeded \subseteq SeedIds
    /\ pc \in {"idle", "up", "reset"}
    /\ Range(queue) \subseteq Ids
    /\ pc # "idle" => queue # <<>>
    /\ exit \in {0, 1}
    /\ open_conns \in {0, 1}
    /\ cur.cmd \in {"none", "up", "down", "reset", "seed"}
    /\ prev.cmd \in {"none", "up", "down", "reset", "seed"}
    /\ fs_ops \in 0..MaxFsOps
    /\ parse.op \in {"none", "up", "down"}
    /\ \A p \in Procs : procs[p].pc \in {"off", "ensure", "plan", "exec",
                                           "insert", "commit", "done"}

Init ==
    /\ files \in [Ids -> Texts \cup {NoFile, Unreadable}]
    /\ seeds = [exists |-> TRUE, files |-> [s \in SeedIds |-> NoFile]]
    /\ db = [table |-> FALSE, schema |-> {}, ledger |-> <<>>, seeded |-> {}]
    /\ pc = "idle"
    /\ queue = <<>>
    /\ trace = <<>>
    /\ exit = 0
    /\ open_conns = 0
    /\ cur = NoCmd
    /\ prev = NoCmd
    /\ fs_ops = 0
    /\ parse = NoParse
    /\ procs = NoProcs

\* What open(filepath).read() gives for an entry of the migrations directory:
\* the text of a migration file, SQL for the seed-prefixed file, an error for
\* the subdirectory.
Content(f) ==
    IF f \in Ids THEN files[f]
    ELSE IF f = SeedPrefixedName THEN TextFull
    ELSE Unreadable

\* A migration file is created between two runs of the tool.
AddFile ==
    /\ pc = "idle"
    /\ fs_ops < MaxFsOps
    /\ \E f \in Ids, t \in Texts \cup {Unreadable} :
          /\ files[f] = NoFile
          /\ files' = [files EXCEPT ![f] = t]
    /\ fs_ops' = fs_ops + 1
    /\ cur' = NoCmd
    /\ prev' = NoCmd
    /\ trace' = <<>>
    /\ exit' = 0
    /\ UNCHANGED <<seeds, db, pc, queue, open_conns>>
    /\ UNCHANGED <<parse, procs>>

\* A migration file is deleted between two runs of the tool.
DeleteFile ==
    /\ pc = "idle"
    /\ fs_ops < MaxFsOps
    /\ \E f \in Ids :
          /\ files[f] # NoFile
          /\ files' = [files EXCEPT ![f] = NoFile]
    /\ fs_ops' = fs_ops + 1
    /\ cur' = NoCmd
    /\ prev' = NoCmd
    /\ trace' = <<>>
    /\ exit' = 0
    /\ UNCHANGED <<seeds, db, pc, queue, open_conns>>
    /\ UNCHANGED <<parse, procs>>

\* migrate_up, up to the loop over pending.
MigrateUp ==
    /\ pc = "idle"
    /\ \E listing \in ListDirOrders(DirEntries) :
          LET d == CreateMigrationsTable(db)
              applied == GetAppliedMigrations(d)
              migrations == GetMigrationFiles(listing)
              pending == Pending(migrations, applied)
          IN  /\ db' = d
              /\ queue' = pending
              /\ IF pending = <<>>
                 THEN /\ trace' = <<<<"nopending", 0>>>>
                      /\ pc' = "idle"
                 ELSE /\ trace' = <<>>
                      /\ pc' = "up"
    /\ exit' = ExitCode(FALSE)
    /\ open_conns' = 0
    /\ Begin("up")
    /\ UNCHANGED <<files, seeds, fs_ops>>
    /\ UNCHANGED <<parse, procs>>

\* One iteration of migrate_up's loop; the last one, or the one that raises,
\* ends the process.
UpStep ==
    /\ pc = "up"
    /\ LET f == Head(queue)
           r == RunMigrationUp(db, f, Content(f))
       IN  /\ db' = r.db
           /\ trace' = trace \o r.out \o MainOut(r.raised)
           /\ exit' = ExitCode(r.raised)
           /\ queue' = IF r.raised THEN <<>> ELSE Tail(queue)
           /\ pc' = IF r.raised \/ Tail(queue) = <<>> THEN "idle" ELSE "up"
    /\ UNCHANGED <<files, seeds, open_conns, cur, prev, fs_ops>>
    /\ UNCHANGED <<parse, procs>>

\* migrate_down
MigrateDown ==
    /\ pc = "idle"
    /\ LET d == CreateMigrationsTable(db)
           applied == GetAppliedMigrations(d)
       IN  IF applied = <<>>
           THEN /\ db' = d
                /\ trace' = <<<<"norollback", 0>>>>
                /\ exit' = ExitCode(FALSE)
           ELSE LET last_migration == applied[Len(applied)]
                    r == RunMigrationDown(d, last_migration,
                                          Content(last_migration))
                IN  /\ db' = r.db
                    /\ trace' = r.out \o MainOut(r.raised)
                    /\ exit' = ExitCode(r.raised)
    /\ open_conns' = 0
    /\ Begin("down")
    /\ UNCHANGED <<files, seeds, pc, queue, fs_ops>>
    /\ UNCHANGED <<parse, procs>>

\* migrate_reset, up to the loop over reversed(applied).
MigrateReset ==
    /\ pc = "idle"
    /\ LET d == CreateMigrationsTable(db)
           applied == GetAppliedMigrations(d)
       IN  /\ db' = d
           /\ queue' = Reversed(applied)
           /\ IF applied = <<>>
              THEN /\ trace' = <<<<"norollback", 0>>>>
                   /\ pc' = "idle"
              ELSE /\ trace' = <<>>
                   /\ pc' = "reset"
    /\ exit' = ExitCode(FALSE)
    /\ open_conns' = 0
    /\ Begin("reset")
    /\ UNCHANGED <<files, seeds, fs_ops>>
    /\ UNCHANGED <<parse, procs>>

\* One iteration of migrate_reset's loop.
ResetStep ==
    /\ pc = "reset"
    /\ LET f == Head(queue)
           r == RunMigrationDown(db, f, Content(f))
       IN  /\ db' = r.db
           /\ trace' = trace \o r.out \o MainOut(r.raised)
           /\ exit' = ExitCode(r.raised)
           /\ queue' = IF r.raised THEN <<>> ELSE Tail(queue)
           /\ pc' = IF r.raised \/ Tail(queue) = <<>> THEN "idle" ELSE "reset"
    /\ UNCHANGED <<files, seeds, open_conns, cur, prev, fs_ops>>
    /\ UNCHANGED <<parse, procs>>

\* run_seeds
RunSeeds ==
    /\ pc = "idle"
    /\ IF ~seeds.exists
       THEN /\ trace' = <<<<"noseedsdir", 0>>>>
            /\ UNCHANGED <<db, open_conns>>
            /\ exit' = ExitCode(FALSE)
       ELSE \E listing \in ListDirOrders(SeedEntries) :
              LET seed_files == Sorted(listing)
                  r == SeedLoop(GetConnection(db), seed_files, <<>>)
              IN  IF seed_files = <<>>
                  THEN /\ trace' = <<<<"noseeds", 0>>>>
                       /\ UNCHANGED <<db, open_conns>>
                       /\ exit' = ExitCode(FALSE)
                  ELSE /\ db' = Close(r.conn)
                       /\ trace' = r.out \o MainOut(r.raised)
                       /\ open_conns' = IF r.raised THEN 1 ELSE 0
                       /\ exit' = ExitCode(r.raised)
    /\ Begin("seed")
    /\ UNCHANGED <<files, seeds, pc, queue, fs_ops>>
    /\ UNCHANGED <<parse, procs>>

Next ==
    \/ AddFile
    \/ DeleteFile
    \/ MigrateUp
    \/ UpStep
    \/ MigrateDown
    \/ MigrateReset
    \/ ResetStep

Spec == Init /\ [][Next]_vars

\* The seed runner alone, over every content of the seeds directory.
SeedInit ==
    /\ files = [f \in Ids |-> NoFile]
    /\ seeds \in [exists : BOOLEAN,
                  files : [SeedIds -> SeedTexts \cup {NoFile, Unreadable}]]
    /\ seeds.exists \/ \A s \in SeedIds : seeds.files[s] = NoFile
    /\ db = [table |-> FALSE, schema |-> {}, ledger |-> <<>>, seeded |-> {}]
    /\ pc = "idle"
    /\ queue = <<>>
    /\ trace = <<>>
    /\ exit = 0
    /\ open_conns = 0
    /\ cur = NoCmd
    /\ prev = NoCmd
    /\ fs_ops = 0
    /\ parse = NoParse
    /\ procs = NoProcs

SeedNext == RunSeeds

SeedSpec == SeedInit /\ [][SeedNext]_vars

(* ------------------------- the parser alone --------------------------- *)

Tokens == {"UP", "DOWN", "sp", "good"}

RECURSIVE TextsUpTo(_)
TextsUpTo(n) ==
    IF n = 0 THEN {<<>>}
    ELSE LET shorter == TextsUpTo(n - 1)
         IN  shorter \cup {Append(t, x) : t \in shorter, x \in Tokens}

\* Any text of a migration file, before it is parsed.
ParseInit ==
    /\ files = [f \in Ids |-> NoFile]
    /\ seeds = [exists |-> TRUE, files |-> [s \in SeedIds |-> NoFile]]
    /\ db = [table |-> FALSE, schema |-> {}, ledger |-> <<>>, seeded |-> {}]
    /\ pc = "idle"
    /\ queue = <<>>
    /\ trace = <<>>
    /\ exit = 0
    /\ open_conns = 0
    /\ cur = NoCmd
    /\ prev = NoCmd
    /\ fs_ops = 0
    /\ \E t \in TextsUpTo(MaxTextLen) : parse = [NoParse EXCEPT !.text = t]
    /\ procs = NoProcs

\* run_migration_up, up to get_connection: the text's up part.
ParseUp ==
    /\ parse.op = "none"
    /\ parse' = [parse EXCEPT !.op = "up", !.body = UpSql(parse.text)]
    /\ UNCHANGED <<files, seeds, db, pc, queue, trace, exit, open_conns, cur,
                   prev, fs_ops, procs>>

\* run_migration_down, up to get_connection: the text's down part, or none.
ParseDown ==
    /\ parse.op = "none"
    /\ parse' =
          IF Len(DownParts(parse.text)) < 2
          THEN [parse EXCEPT !.op = "down", !.absent = TRUE]
          ELSE [parse EXCEPT !.op = "down", !.body = DownSql(parse.text)]
    /\ UNCHANGED <<files, seeds, db, pc, queue, trace, exit, open_conns, cur,
                   prev, fs_ops, procs>>

ParseNext == ParseUp \/ ParseDown

ParseSpec == ParseInit /\ [][ParseNext]_vars

(* --------------------- two invocations of 'up' at once ---------------- *)

\* Both processes are started on the same files and a fresh database.
ConcInit ==
    /\ files \in [Ids -> Texts \cup {NoFile, Unreadable}]
    /\ seeds = [exists |-> TRUE, files |-> [s \in SeedIds |-> NoFile]]
    /\ db = [table |-> FALSE, schema |-> {}, ledger |-> <<>>, seeded |-> {}]
    /\ pc = "idle"
    /\ queue = <<>>
    /\ trace = <<>>
    /\ exit = 0
    /\ open_conns = 0
    /\ cur = NoCmd
    /\ prev = NoCmd
    /\ fs_ops = 0
    /\ parse = NoParse
    /\ procs = [p \in Procs |-> [NoProcs[p] EXCEPT !.pc = "ensure"]]

\* The process p ends, with an exception or without.
Ended(p, out, raised) ==
    [procs EXCEPT ![p].pc = "done",
                  ![p].queue = <<>>,
                  ![p].out = @ \o out \o MainOut(raised),
                  ![p].exit = ExitCode(raised)]

\* The transaction of p's run_migration_up(f), as the database sees it when
\* its next statement arrives: the up SQL, then the INSERT.
UpTransaction(f) ==
    LET c1 == Execute(GetConnection(db), UpSql(Content(f)), "up", f)
    IN  IF c1.ok THEN InsertVersion(c1, f) ELSE c1

\* migrate_up of p: create_migrations_table()
ConcEnsure(p) ==
    /\ procs[p].pc = "ensure"
    /\ db' = CreateMigrationsTable(db)
    /\ procs' = [procs EXCEPT ![p].pc = "plan"]
    /\ UNCHANGED <<files, seeds, pc, queue, trace, exit, open_conns, cur,
                   prev, fs_ops, parse>>

\* migrate_up of p: applied, migrations, pending
ConcPlan(p) ==
    /\ procs[p].pc = "plan"
    /\ \E listing \in ListDirOrders(DirEntries) :
          LET applied == GetAppliedMigrations(db)
              migrations == GetMigrationFiles(listing)
              pending == Pending(migrations, applied)
          IN  procs' = IF pending = <<>>
                       THEN Ended(p, <<<<"nopending", 0>>>>, FALSE)
                       ELSE [procs EXCEPT ![p].pc = "exec",
                                          ![p].queue = pending]
    /\ UNCHANGED <<files, seeds, db, pc, queue, trace, exit, open_conns, cur,
                   prev, fs_ops, parse>>

\* run_migration_up of p, up to cur.execute(up_sql): the script is read and
\* its SQL runs inside p's transaction.
ConcExec(p) ==
    /\ procs[p].pc = "exec"
    /\ LET f == Head(procs[p].queue)
           content == Content(f)
           c1 == Execute(GetConnection(db), UpSql(content), "up", f)
       IN  procs' =
              IF ~Readable(content)
              THEN Ended(p, <<<<"open", f>>>>, TRUE)
              ELSE IF ~c1.ok
              THEN Ended(p, <<<<"open", f>>, <<"exec", f>>, <<"error", f>>>>,
                         TRUE)
              ELSE [procs EXCEPT ![p].pc = "insert",
                                 ![p].out = @ \o <<<<"open", f>>, <<"exec", f>>>>]
    /\ UNCHANGED <<files, seeds, db, pc, queue, trace, exit, open_conns, cur,
                   prev, fs_ops, parse>>

\* run_migration_up of p: the INSERT into schema_migrations.  It waits while
\* another transaction holds an uncommitted row with the same version; a
\* committed one makes it raise, and p rolls back and ends.
ConcInsert(p) ==
    /\ procs[p].pc = "insert"
    /\ LET f == Head(procs[p].queue)
           c2 == UpTransaction(f)
       IN  /\ \A q \in Procs \ {p} :
                 ~(procs[q].pc = "commit" /\ Head(procs[q].queue) = f)
           /\ IF c2.ok
              THEN /\ procs' = [procs EXCEPT ![p].pc = "commit"]
                   /\ db' = db
              ELSE /\ procs' = Ended(p, <<<<"error", f>>>>, TRUE)
                   /\ db' = Close(Rollback(c2))
    /\ UNCHANGED <<files, seeds, pc, queue, trace, exit, open_conns, cur,
                   prev, fs_ops, parse>>

\* run_migration_up of p: conn.commit(), and the loop's next iteration.
ConcCommit(p) ==
    /\ procs[p].pc = "commit"
    /\ LET f == Head(procs[p].queue)
           c3 == Commit(UpTransaction(f))
           rest == Tail(procs[p].queue)
       IN  /\ db' = Close(c3)
           /\ procs' =
                 IF rest = <<>>
                 THEN Ended(p, <<<<"applied", f>>>>, FALSE)
                 ELSE [procs EXCEPT ![p].pc = "exec",
                                    ![p].queue = rest,
                                    ![p].out = Append(@, <<"applied", f>>)]
    /\ UNCHANGED <<files, seeds, pc, queue, trace, exit, open_conns, cur,
                   prev, fs_ops, parse>>

ConcNext ==
    \E p \in Procs :
        \/ ConcEnsure(p)
        \/ ConcPlan(p)
        \/ ConcExec(p)
        \/ ConcInsert(p)
        \/ ConcCommit(p)

ConcSpec == ConcInit /\ [][ConcNext]_vars

(* ------------------------- what the claims read ----------------------- *)

\* The command cmd has run to its end.
AtEnd(cmd) == pc = "idle" /\ cur.cmd = cmd

\* The files that are migrations (M), the ledger when the command began (L).
M == {f \in Ids : files[f] # NoFile}

L == Range(cur.before)

\* The names of the trace's events of one kind, in order.
EventSeq(kind) ==
    LET t == SelectSeq(trace, LAMBDA e : e[1] = kind)
    IN  [i \in 1..Len(t) |-> t[i][2]]

Max(S) == CHOOSE x \in S : \A y \in S : y <= x

NoDuplicates(s) == \A i, j \in 1..Len(s) : i # j => s[i] # s[j]

StrictlyAscending(s) == \A i \in 1..(Len(s) - 1) : s[i] < s[i + 1]

StrictlyDescending(s) == \A i \in 1..(Len(s) - 1) : s[i] > s[i + 1]

\* By the file's text: the up script cannot be applied; the script has no
\* DOWN delimiter; its down part runs; its down part is rejected.
UpFails(f) == files[f] \in {Unreadable, TextUpBad}

HasNoDown(f) == files[f] = TextNoDown

DownRuns(f) == files[f] \in {TextFull, TextUpBad}

DownRejected(f) == files[f] = TextDownBad

\* By the file's text: the rollback raises (the script cannot be read, or its
\* down part is rejected).
DownFails(f) == files[f] \in {NoFile, Unreadable, TextDownBad}

\* The greatest applied identifier whose rollback raises: where reset() ends.
FirstFailing == Max({f \in L : DownFails(f)})

(* -------------------------------- claims ------------------------------ *)

\* C1: up() executes only identifiers of M that are not in L, none twice;
\* when every up script it has to run succeeds, it executes exactly M \ L and
\* the ledger afterwards is L union (M \ L).
C1_UpAppliesPending ==
    cur.cmd = "up" =>
        /\ Range(EventSeq("exec")) \subseteq M \ L
        /\ NoDuplicates(EventSeq("exec"))
        /\ (pc = "idle" /\ \A f \in M \ L : ~UpFails(f)) =>
              /\ Range(EventSeq("exec")) = M \ L
              /\ Range(db.ledger) = L \cup (M \ L)
              /\ NoDuplicates(db.ledger)
              /\ exit = 0

C1_Witness ==
    /\ AtEnd("up")
    /\ exit = 0
    /\ L # {}
    /\ M \ L # {}
    /\ Range(EventSeq("exec")) = M \ L
    /\ Range(db.ledger) = L \cup M

\* C2: an up() that follows a successful up() with the same files executes no
\* script, reports only that nothing is pending, and leaves the ledger as it was.
C2_UpIdempotent ==
    (cur.cmd = "up" /\ prev.cmd = "up" /\ prev.exit = 0) =>
        /\ pc = "idle"
        /\ trace = <<<<"nopending", 0>>>>
        /\ db.ledger = cur.before
        /\ exit = 0

C2_Witness ==
    /\ AtEnd("up")
    /\ prev.cmd = "up"
    /\ prev.exit = 0
    /\ Len(db.ledger) > Len(prev.before)
    /\ trace = <<<<"nopending", 0>>>>

\* C3 as stated: after a successful down() on a non-empty ledger (one that
\* rolled its target back) and a successful up() right after it, the ledger
\* holds the identifiers it held before the down(), whatever the migration
\* files are.
C3_RoundTripAnyFiles ==
    (AtEnd("up") /\ exit = 0 /\ prev.cmd = "down" /\ prev.exit = 0
        /\ prev.before # <<>> /\ Len(cur.before) < Len(prev.before)) =>
        Sorted(db.ledger) = Sorted(prev.before)

\* C3 as amended: the round trip restores the ledger's identifiers when no
\* migration file was pending before the down() (every migration file's
\* identifier was in the ledger).
C3_RoundTripNoPending ==
    (AtEnd("up") /\ exit = 0 /\ prev.cmd = "down" /\ prev.exit = 0
        /\ prev.before # <<>> /\ M \subseteq Range(prev.before)) =>
        /\ Sorted(db.ledger) = Sorted(prev.before)
        /\ NoDuplicates(db.ledger)

C3_Witness ==
    /\ AtEnd("up")
    /\ exit = 0
    /\ prev.cmd = "down"
    /\ prev.exit = 0
    /\ Len(prev.before) >= 2
    /\ M \subseteq Range(prev.before)
    /\ Range(cur.before) # Range(prev.before)
    /\ EventSeq("applied") = <<Max(Range(prev.before))>>
    /\ Sorted(db.ledger) = Sorted(prev.before)

\* C4 as stated: from every ledger, reset() executes the rollbacks of all
\* applied identifiers in descending order and leaves the ledger empty.
C4_ResetAlwaysEmpties ==
    AtEnd("reset") =>
        /\ EventSeq("exec") = Reversed(Sorted(cur.before))
        /\ db.ledger = <<>>

\* C4 as amended: reset() attempts the applied identifiers in strictly
\* descending order; when the script of every applied identifier has a down
\* part that runs, it executes all the rollbacks, in that order, and leaves the
\* ledger empty.
C4_ResetDescending ==
    cur.cmd = "reset" =>
        /\ StrictlyDescending(EventSeq("open"))
        /\ Range(EventSeq("open")) \subseteq L
        /\ (pc = "idle" /\ \A f \in L : DownRuns(f)) =>
              /\ EventSeq("exec") = Reversed(Sorted(cur.before))
              /\ EventSeq("rolledback") = EventSeq("exec")
              /\ db.ledger = <<>>
              /\ exit = 0

C4_Witness ==
    /\ AtEnd("reset")
    /\ Len(cur.before) >= 3
    /\ \A f \in L : DownRuns(f)
    /\ EventSeq("exec") = Reversed(Sorted(cur.before))
    /\ StrictlyDescending(EventSeq("exec"))
    /\ db.ledger = <<>>

\* C5: up() applies and records a migration whose file has no DOWN delimiter;
\* a down() that targets it reports that no DOWN migration was found, executes
\* no SQL, raises nothing (exit 0) and leaves the ledger as it was.
C5_NoDownKept ==
    /\ (AtEnd("up") /\ exit = 0) =>
          \A f \in M \ L :
              HasNoDown(f) =>
                  /\ f \in Range(db.ledger)
                  /\ f \in Range(EventSeq("applied"))
    /\ (AtEnd("down") /\ cur.before # <<>> /\ HasNoDown(Max(L))) =>
          /\ trace = <<<<"open", Max(L)>>, <<"nodown", Max(L)>>>>
          /\ exit = 0
          /\ db.ledger = cur.before

C5_Witness ==
    /\ AtEnd("down")
    /\ prev.cmd = "up"
    /\ prev.exit = 0
    /\ cur.before # <<>>
    /\ HasNoDown(Max(L))
    /\ Max(L) \notin Range(prev.before)
    /\ <<"nodown", Max(L)>> \in Range(trace)
    /\ Max(L) \in Range(db.ledger)

\* C6: in a seed batch whose files can all be read, a seed whose SQL is
\* rejected is rolled back and reported, every seed whose SQL is accepted is
\* executed and committed, all are executed in ascending order, and the
\* process exits 0.
C6_SeedsIsolated ==
    (AtEnd("seed") /\ SeedEntries # {}
        /\ \A s \in SeedEntries : seeds.files[s] # Unreadable) =>
        /\ EventSeq("exec") = Ascending(SeedEntries)
        /\ \A s \in SeedEntries :
              IF seeds.files[s] = <<"good">>
              THEN /\ s \in Range(EventSeq("seeded"))
                   /\ s \in db.seeded
                   /\ s \notin Range(EventSeq("seederror"))
              ELSE /\ s \in Range(EventSeq("seederror"))
                   /\ s \notin db.seeded
                   /\ s \notin Range(EventSeq("seeded"))
        /\ exit = 0
        /\ open_conns = 0

C6_Witness ==
    /\ AtEnd("seed")
    /\ \E a, b, c \in SeedIds :
          /\ a < b /\ b < c
          /\ seeds.files[a] = <<"good">>
          /\ seeds.files[b] = <<"good", "bad">>
          /\ seeds.files[c] = <<"good">>
          /\ {a, c} \subseteq db.seeded
          /\ b \notin db.seeded
          /\ <<"seederror", b>> \in Range(trace)
    /\ exit = 0

\* C7: when a pending migration of up() fails, the first one that fails is the
\* last one attempted, the ledger is the ledger at the start followed by the
\* pending identifiers before it, the failing identifier is not in the ledger,
\* and the process exits 1 after printing the failure.
C7_UpFailFast ==
    (AtEnd("up") /\ \E f \in M \ L : UpFails(f)) =>
        LET pending == Ascending(M \ L)
            k == CHOOSE i \in 1..Len(pending) :
                     /\ UpFails(pending[i])
                     /\ \A j \in 1..(i - 1) : ~UpFails(pending[j])
        IN  /\ EventSeq("open") = SubSeq(pending, 1, k)
            /\ EventSeq("applied") = SubSeq(pending, 1, k - 1)
            /\ db.ledger = cur.before \o SubSeq(pending, 1, k - 1)
            /\ pending[k] \notin Range(db.ledger)
            /\ exit = 1
            /\ trace[Len(trace)] = <<"failed", 0>>

C7_Witness ==
    /\ AtEnd("up")
    /\ exit = 1
    /\ Cardinality(M \ L) = 3
    /\ Len(EventSeq("open")) = 2
    /\ Len(EventSeq("applied")) = 1
    /\ Len(db.ledger) = Len(cur.before) + 1
    /\ <<"error", EventSeq("open")[2]>> \in Range(trace)

\* C8: in every committed state of the database, the up effect of a migration
\* is present exactly when its identifier is in the ledger.
C8_StepAtomic ==
    /\ db.schema = Range(db.ledger)
    /\ NoDuplicates(db.ledger)

C8_Witness ==
    /\ AtEnd("reset")
    /\ exit = 1
    /\ EventSeq("rolledback") # <<>>
    /\ EventSeq("error") # <<>>
    /\ db.schema # {}
    /\ db.schema = Range(db.ledger)
    /\ \E f \in Ids : f \notin db.schema /\ UpFails(f)

\* C9 as stated: the migration down() rolls back is the one whose ledger
\* entry was inserted last.
C9_DownTargetsLastInserted ==
    (AtEnd("down") /\ cur.before # <<>> /\ EventSeq("rolledback") # <<>>) =>
        EventSeq("rolledback") = <<cur.before[Len(cur.before)]>>

\* C9 as amended: the identifier down() targets is the greatest identifier in
\* the ledger; it is the one inserted last when the ledger's entries were
\* inserted in ascending identifier order.
C9_DownTargetsGreatest ==
    (AtEnd("down") /\ cur.before # <<>>) =>
        /\ EventSeq("open") = <<Max(L)>>
        /\ cur.before = Sorted(cur.before) =>
              EventSeq("open") = <<cur.before[Len(cur.before)]>>

C9_Witness ==
    /\ AtEnd("down")
    /\ Len(cur.before) >= 2
    /\ cur.before[Len(cur.before)] # Max(L)
    /\ EventSeq("rolledback") = <<Max(L)>>
    /\ cur.before[Len(cur.before)] \in Range(db.ledger)

\* C10 as stated: the down command exits non-zero when the targeted migration
\* has no down section, and when its down SQL fails.
C10_DownExitsNonZero ==
    (AtEnd("down") /\ cur.before # <<>>
        /\ (HasNoDown(Max(L)) \/ DownRejected(Max(L)))) =>
        exit # 0

\* C10 as amended: the down command exits 0 when the targeted migration has no
\* down section, and exits non-zero, the ledger unchanged, when its down SQL
\* fails.
C10_DownExit ==
    (AtEnd("down") /\ cur.before # <<>>) =>
        /\ HasNoDown(Max(L)) => exit = 0
        /\ DownRejected(Max(L)) =>
              /\ exit = 1
              /\ <<"error", Max(L)>> \in Range(trace)
              /\ db.ledger = cur.before

C10_Witness ==
    /\ AtEnd("down")
    /\ Len(cur.before) >= 2
    /\ HasNoDown(Max(L))
    /\ \E f \in L : DownRejected(f)
    /\ exit = 0
    /\ EventSeq("nodown") = <<Max(L)>>

\* C11: whatever order the directory is listed in, get_migration_files
\* returns the migration files in ascending order; within one up() the pending
\* migrations are opened and executed in strictly ascending order, the loop's
\* remaining work being the rest of the ascending pending list.
C11_AscendingOrder ==
    /\ \A listing \in ListDirOrders(DirEntries) :
          GetMigrationFiles(listing) = Ascending(M)
    /\ cur.cmd = "up" =>
          /\ StrictlyAscending(EventSeq("open"))
          /\ StrictlyAscending(EventSeq("exec"))
          /\ pc = "up" => EventSeq("open") \o queue = Ascending(M \ L)

C11_Witness ==
    /\ AtEnd("up")
    /\ Len(EventSeq("exec")) >= 3
    /\ StrictlyAscending(EventSeq("exec"))
    /\ \E listing \in ListDirOrders(DirEntries) :
          /\ ~StrictlyAscending(listing)
          /\ GetMigrationFiles(listing) = EventSeq("exec")

\* C12 as stated: when a rollback of reset() fails, the failing identifier and
\* every smaller applied identifier stay in the ledger, every greater applied
\* identifier has been removed, nothing is attempted after it and the process
\* exits non-zero.
C12_ResetStopsAllGreaterRemoved ==
    (AtEnd("reset") /\ \E f \in L : DownFails(f)) =>
        /\ Range(db.ledger) = {f \in L : f <= FirstFailing}
        /\ EventSeq("open")[Len(EventSeq("open"))] = FirstFailing
        /\ exit # 0

\* C12 as amended: as stated, but of the greater applied identifiers those
\* whose script has no down section were reported, skipped and stay in the
\* ledger; the others have been removed.
C12_ResetStops ==
    (AtEnd("reset") /\ \E f \in L : DownFails(f)) =>
        /\ db.ledger =
              SelectSeq(cur.before,
                        LAMBDA f : f <= FirstFailing \/ HasNoDown(f))
        /\ EventSeq("open") =
              Reversed(Ascending({f \in L : f >= FirstFailing}))
        /\ EventSeq("rolledback") =
              Reversed(Ascending({f \in L : f > FirstFailing /\ DownRuns(f)}))
        /\ exit = 1
        /\ trace[Len(trace)] = <<"failed", 0>>

C12_Witness ==
    /\ AtEnd("reset")
    /\ Len(cur.before) >= 3
    /\ \E f \in L : DownFails(f)
    /\ FirstFailing # Max(L)
    /\ \E f \in L : f < FirstFailing
    /\ EventSeq("rolledback") # <<>>
    /\ exit = 1
    /\ Range(db.ledger) = {f \in L : f <= FirstFailing}

\* C13: the ledger is a subset of what list_migrations returns, for as long as
\* no applied migration's file is deleted: no step of the tool, and no creation
\* of a file, takes the ledger out of the set of migration files; only a step
\* that removes a file from that set can.
C13_LedgerWithinFiles ==
    [][(Range(db.ledger) \subseteq M /\ M \subseteq M') =>
           Range(db'.ledger) \subseteq M']_vars

C13_Witness ==
    /\ AtEnd("down")
    /\ prev.cmd = "up"
    /\ fs_ops = 0
    /\ Len(prev.before) = 0
    /\ Len(db.ledger) >= 2
    /\ Range(db.ledger) \subseteq M
    /\ Range(db.ledger) # M
    /\ EventSeq("rolledback") # <<>>

C15_ConnectionsReleased ==
    (pc = "idle" /\ cur.cmd \in {"up", "down", "reset", "seed"}) =>
        open_conns = 0

\* C16: a seed file that cannot be read does not end the batch: when the seed
\* directory can be listed, every seed file that can be read is executed, the
\* accepted ones are committed, and the process exits 0.
C16_UnreadableSeedIsolated ==
    (AtEnd("seed") /\ seeds.exists) =>
        /\ exit = 0
        /\ \A s \in SeedEntries :
              seeds.files[s] # Unreadable => s \in Range(EventSeq("exec"))
        /\ \A s \in SeedEntries :
              seeds.files[s] = <<"good">> => s \in db.seeded

\* C18 as stated: during and after any reset(), every identifier removed from
\* the ledger is greater than every identifier still in it.
C18_ResetRemovesSuffix ==
    cur.cmd = "reset" =>
        \A r \in L \ Range(db.ledger), g \in Range(db.ledger) : g < r

\* C18 as amended: during and after any reset(), every identifier removed from
\* the ledger is greater than every identifier still in it whose script has a
\* down section; the ledger that remains is the initial one without the
\* removed identifiers, in the same order.
C18_ResetRemovesSuffixButNoDown ==
    cur.cmd = "reset" =>
        /\ \A r \in L \ Range(db.ledger), g \in Range(db.ledger) :
              g < r \/ HasNoDown(g)
        /\ db.ledger = SelectSeq(cur.before, LAMBDA g : g \in Range(db.ledger))
        /\ Range(db.ledger) \subseteq L

C18_Witness ==
    /\ AtEnd("reset")
    /\ Len(cur.before) >= 3
    /\ Range(db.ledger) # {}
    /\ L \ Range(db.ledger) # {}
    /\ \E g \in Range(db.ledger) : HasNoDown(g) /\ g > Max(L \ Range(db.ledger))
    /\ \E g \in Range(db.ledger) : ~HasNoDown(g)
    /\ \A r \in L \ Range(db.ledger), g \in Range(db.ledger) :
          g < r \/ HasNoDown(g)

\* The text before the first occurrence of sep, and the text after it.
BeforeFirst(s, sep) ==
    IF sep \notin Range(s) THEN s
    ELSE SubSeq(s, 1, (CHOOSE k \in 1..Len(s) :
                          s[k] = sep /\ \A j \in 1..(k - 1) : s[j] # sep) - 1)

AfterFirst(s, sep) ==
    SubSeq(s, (CHOOSE k \in 1..Len(s) :
                  s[k] = sep /\ \A j \in 1..(k - 1) : s[j] # sep) + 1, Len(s))

\* C17: for every text, the up body is the trimmed text before the first
\* '-- DOWN' with '-- UP' removed; the down body is absent exactly when the
\* text has no '-- DOWN', and otherwise is the whole trimmed text after the
\* first '-- DOWN'.
C17_SplitOnFirstDelimiter ==
    /\ parse.op = "up" =>
          parse.body = Strip(Replace(BeforeFirst(parse.text, "DOWN"), "UP"))
    /\ parse.op = "down" =>
          /\ parse.absent <=> "DOWN" \notin Range(parse.text)
          /\ ~parse.absent =>
                parse.body = Strip(AfterFirst(parse.text, "DOWN"))

\* The identifiers the process p has reported as applied, or as failed.
AppliedBy(p) ==
    LET evs == SelectSeq(procs[p].out, LAMBDA e : e[1] = "applied")
    IN  [i \in 1..Len(evs) |-> evs[i][2]]

FailedBy(p) ==
    LET evs == SelectSeq(procs[p].out, LAMBDA e : e[1] = "error")
    IN  [i \in 1..Len(evs) |-> evs[i][2]]

\* C19: when two up() invocations run at once on the same database and files,
\* under every interleaving each identifier is committed by at most one of
\* them and at most once, the ledger never holds an identifier twice and
\* holds exactly the committed ones together with their up effects, and an
\* invocation whose INSERT meets an identifier the other has committed has
\* applied nothing of that step, has ended and exits 1.
C19_NoDoubleApply ==
    /\ NoDuplicates(db.ledger)
    /\ db.schema = Range(db.ledger)
    /\ \A p \in Procs : \A q \in Procs \ {p} :
          /\ NoDuplicates(AppliedBy(p) \o AppliedBy(q))
          /\ Range(db.ledger) = Range(AppliedBy(p)) \cup Range(AppliedBy(q))
          /\ \A f \in Range(FailedBy(p)) :
                SqlOk(UpSql(files[f])) =>
                    /\ f \in Range(AppliedBy(q))
                    /\ f \notin Range(AppliedBy(p))
                    /\ f \in Range(db.ledger)
                    /\ procs[p].pc = "done"
                    /\ procs[p].exit = 1
                    /\ procs[p].out[Len(procs[p].out)] = <<"failed", 0>>

C19_Witness ==
    \E p \in Procs : \E q \in Procs \ {p}, f \in Ids :
        /\ procs[p].pc = "done"
        /\ procs[q].pc = "done"
        /\ SqlOk(UpSql(files[f]))
        /\ f \in Range(FailedBy(p))
        /\ f \in Range(AppliedBy(q))
        /\ AppliedBy(p) # <<>>
        /\ procs[p].exit = 1
        /\ procs[q].exit = 0
        /\ Len(db.ledger) = NumIds
        /\ NoDuplicates(db.ledger)

====
